---- MODULE Spec2Model ----
(***************************************************************************)
(* A model of the orchestration shells of WorkTools:                       *)
(*   - PluginManager  (src/worktools/plugin_manager.py)                    *)
(*   - UpdateChecker / UpdateDownloader / UpdateDialog / AutoUpdater       *)
(*                    (src/worktools/updater.py)                           *)
(*   - MainWindow with Workspace and NavigationPanel                       *)
(*                    (src/worktools/main_window.py, workspace.py,         *)
(*                     navigation.py)                                      *)
(* The specifications of the module: SpecPM (plugin manager), SpecVersion  *)
(* (the pure version comparison), SpecUpdate (one update check and its     *)
(* dialog), SpecAuto (the update checks of the running application) and    *)
(* SpecApp (the main window with its plugin manager, workspace and         *)
(* navigation panel), SpecReload (the main window with its "reload         *)
(* plugins" menu action) and SpecWorkspace (the Workspace with its stacked *)
(* widget).                                                                *)
(***************************************************************************)
EXTENDS Integers, Sequences, FiniteSets, TLC

VARIABLES
    \* ---- PluginManager ----
    plugins,            \* self._plugins: name -> plugin instance (NoPlugin = absent)
    active_plugin,      \* self._active_plugin: a name or None
    plugin_categories,  \* self._plugin_categories: category -> list of names
    trace,              \* hooks called and signals emitted by the last operation
    lastOp,             \* the last operation, its argument and its outcome
    activeInsts         \* instances whose on_activate succeeded and whose
                        \* on_deactivate has not succeeded since
VARIABLES
    \* ---- UpdateChecker._compare_version as a pure function ----
    v1, v2,             \* the two version strings (sequences of characters)
    cmp12, cmp21        \* _compare_version(v1, v2) and _compare_version(v2, v1)

pmVars == <<plugins, active_plugin, plugin_categories, trace, lastOp,
            activeInsts>>

verVars == <<v1, v2, cmp12, cmp21>>

VARIABLES
    \* ---- the update check and the update dialog ----
    platform,           \* sys.platform
    localFile,          \* the version.json shipped with the application
    chk,                \* UpdateChecker thread: idle, running, emitted, done
    resp,               \* what the version URL answered to the running check
    chkSignals,         \* signals emitted by UpdateChecker.run
    chkEscaped,         \* an exception left UpdateChecker.run
    dlg,                \* UpdateDialog: none, open, rejected, accepted
    update_btn,         \* update_btn.isEnabled()
    later_btn,          \* later_btn.isEnabled()
    status,             \* what status_label shows
    dl,                 \* UpdateDownloader thread: idle, running, or its
                        \* emitted signal waiting for the dialog's slot
    downloaded_file,    \* self.downloaded_file
    failure,            \* the step that failed in the last attempt
    scriptWritten,      \* worktools_updater.bat has been written
    scriptLaunched,     \* the script has been started with Popen
    quit,               \* QApplication.quit() has been called
    exeReplaced,        \* the script has copied the new files over the old
    flow,               \* the steps of the update flow, in order
    clicks,             \* clicks on the update button
    downloads           \* downloader threads started

updVars == <<platform, localFile, chk, resp, chkSignals, chkEscaped, dlg,
             update_btn, later_btn, status, dl, downloaded_file, failure,
             scriptWritten, scriptLaunched, quit, exeReplaced, flow, clicks,
             downloads>>

VARIABLES
    \* ---- the update checks of the running application ----
    timer,              \* WorkToolsApp.update_check_timer: armed or fired
    checkers,           \* the UpdateChecker threads started so far
    silent,             \* self.silent of each AutoUpdater
    dialogs,            \* the dialogs the update checks have opened
    notices,            \* the checks whose result was shown to the user
    exited              \* QApplication.quit() has been called

autoVars == <<timer, checkers, silent, dialogs, notices, exited>>

VARIABLES
    \* ---- the main window and the plugin files on disk ----
    running,            \* the application is running (MainWindow exists)
    bundled,            \* the modules in <package>/plugins
    userDir,            \* the modules in the per-user plugin directory
    ws_plugins,         \* Workspace._plugins (its keys)
    ws_current,         \* Workspace._current_plugin
    nav_items,          \* NavigationPanel._plugin_items (its keys)
    nav_current,        \* NavigationPanel._current_plugin
    selected_slots,     \* connections of NavigationPanel.plugin_selected to
                        \* MainWindow._on_plugin_selected
    \* ---- the Workspace in detail ----
    ws_info,            \* Workspace._plugins: name -> widget and stack index
    stacked_widget,     \* the widgets of Workspace.stacked_widget, in order
    stack_current,      \* stacked_widget.currentIndex()
    title_label         \* the text of Workspace.title_label

stackVars == <<ws_info, stacked_widget, stack_current, title_label>>

appVars == <<running, bundled, userDir, ws_plugins, ws_current, nav_items,
             nav_current, selected_slots, stackVars>>

vars == <<pmVars, verVars, updVars, autoVars, appVars>>

(***************************************************************************)
(* Bounds of the model.                                                    *)
(***************************************************************************)
MaxInst == 2        \* plugin instances alive at the same time
MaxEntries == 4     \* total length of the category lists
MaxVerLen == 3      \* length of the enumerated version strings
MaxClicks == 2      \* clicks on the update button in one run
MaxMenuChecks == 1  \* uses of the "check update" menu action in one run
MaxWidgets == 3     \* plugin widgets handed to Workspace.add_plugin
MaxReloads == 1     \* uses of the "reload plugins" menu action in one run

(***************************************************************************)
(* Python values.                                                          *)
(***************************************************************************)
None == "None"
\* Return values are written "True", "False" and None.

\* Python truthiness of an Optional[str]: None and "" are both falsy.
Truthy(x) == x # None /\ x # ""

(***************************************************************************)
(* Plugins.  A plugin instance is what get_name() / get_category() return  *)
(* plus its identity.                                                      *)
(***************************************************************************)
\* The names in use are non-empty strings.
Names == {"A", "B"}
Cats == {"text", "file"}

\* The plugin classes of the application: what get_name() and get_category()
\* of their instances return.
PluginClasses == { [name |-> "A", cat |-> "text"],
                   [name |-> "B", cat |-> "file"] }

NoPlugin == [name |-> None, cat |-> None, id |-> 0]

Registered(pl) == {n \in Names : pl[n] # NoPlugin}

Call(hook, p) == [ev |-> hook, plugin |-> p.name, id |-> p.id]
Sig(signal, name) == [ev |-> signal, plugin |-> name, id |-> 0]

\* The manager as one value, threaded through the operations.
Manager == [plugins |-> plugins, active |-> active_plugin,
            cats |-> plugin_categories, trace |-> <<>>,
            activeInsts |-> activeInsts, full |-> FALSE,
            ret |-> None, raised |-> FALSE]

\* Object identity.  An instance is alive while the registry holds it or it is
\* Active; a new instance takes an identity no live instance has (0: none left
\* within MaxInst).
LiveIds(M) == {M.plugins[n].id : n \in Registered(M.plugins)} \cup M.activeInsts

NewId(M) ==
    LET free == (1..MaxInst) \ LiveIds(M)
    IN IF free = {} THEN 0 ELSE CHOOSE i \in free : \A j \in free : i <= j

TotalEntries(cats) ==
    LET RECURSIVE Sum(_)
        Sum(S) == IF S = {} THEN 0
                  ELSE LET c == CHOOSE x \in S : TRUE
                       IN Len(cats[c]) + Sum(S \ {c})
    IN Sum(DOMAIN cats)

(***************************************************************************)
(* PluginManager.deactivate_plugin                                         *)
(***************************************************************************)
\* A faulty variant of deactivate_plugin: the test that name is the active
\* plugin (lines 214-216) is missing.
deactivate_plugin_no_active_test(M, name, raises) ==
    IF name \notin Registered(M.plugins)
    THEN [M EXCEPT !.ret = "False"]
    ELSE LET p == M.plugins[name] IN
         IF raises
         THEN [M EXCEPT !.trace = @ \o <<Call("on_deactivate", p),
                                         Sig("plugin_error", name)>>,
                        !.ret = "False"]
         ELSE [M EXCEPT !.trace = @ \o <<Call("on_deactivate", p),
                                         Sig("plugin_deactivated", name)>>,
                        !.active = None,
                        !.activeInsts = @ \ {p.id},
                        !.ret = "True"]

deactivate_plugin(M, name, raises) ==
    IF name \notin Registered(M.plugins)
    THEN [M EXCEPT !.ret = "False"]
    ELSE IF M.active # name
    THEN [M EXCEPT !.ret = "False"]
    ELSE LET p == M.plugins[name] IN
         IF raises
         THEN [M EXCEPT !.trace = @ \o <<Call("on_deactivate", p),
                                         Sig("plugin_error", name)>>,
                        !.ret = "False"]
         ELSE [M EXCEPT !.trace = @ \o <<Call("on_deactivate", p),
                                         Sig("plugin_deactivated", name)>>,
                        !.active = None,
                        !.activeInsts = @ \ {p.id},
                        !.ret = "True"]

(***************************************************************************)
(* PluginManager.activate_plugin                                           *)
(***************************************************************************)
activate_plugin(M, name, dRaises, aRaises) ==
    IF name \notin Registered(M.plugins)
    THEN [M EXCEPT !.ret = "False"]
    ELSE LET M1 == IF Truthy(M.active) /\ M.active # name
                   THEN deactivate_plugin(M, M.active, dRaises)
                   ELSE M
             p == M1.plugins[name]
         IN IF aRaises
            THEN [M1 EXCEPT !.trace = @ \o <<Call("on_activate", p),
                                             Sig("plugin_error", name)>>,
                            !.ret = "False"]
            ELSE [M1 EXCEPT !.trace = @ \o <<Call("on_activate", p),
                                             Sig("plugin_activated", name)>>,
                            !.active = name,
                            !.activeInsts = @ \cup {p.id},
                            !.ret = "True"]

(***************************************************************************)
(* PluginManager.register_plugin.  outcome says which call into the plugin *)
(* raises, if any.                                                         *)
(***************************************************************************)
RegisterOutcomes == {"ok", "name_fail", "cat_fail", "init_fail"}

register_plugin(M, p, outcome) ==
    IF outcome = "name_fail"
    THEN [M EXCEPT !.raised = TRUE]
    ELSE LET M1 == [M EXCEPT !.plugins[p.name] = p] IN
         IF outcome = "cat_fail"
         THEN [M1 EXCEPT !.raised = TRUE]
         ELSE LET M2 == [M1 EXCEPT !.cats[p.cat] = Append(@, p.name)] IN
              IF outcome = "init_fail"
              THEN [M2 EXCEPT !.trace = @ \o <<Call("initialize", p),
                                               Sig("plugin_error", p.name)>>]
              ELSE [M2 EXCEPT !.trace = @ \o <<Call("initialize", p),
                                               Sig("plugin_loaded", p.name)>>]

(***************************************************************************)
(* The plugin directory on disk.                                           *)
(***************************************************************************)
Dirs == {"plugins", "missing"}
DirExists(d) == d = "plugins"

File(stem, ext) == [stem |-> stem, ext |-> ext]

\* os.listdir returns the entries in arbitrary order.
DirListings(d) ==
    IF d = "plugins"
    THEN { <<File("__init__", ".py"), File("plugin1", ".py"),
             File("notes", ".txt"), File("plugin2", ".py")>>,
           <<File("plugin2", ".py"), File("notes", ".txt"),
             File("plugin1", ".py"), File("__init__", ".py")>> }
    ELSE {}

IsModuleFile(f) == f.ext = ".py" /\ f.stem \notin {"__init__", "__main__"}

\* The BasePlugin subclasses inspect.getmembers finds in a module, in its
\* order.  plugin2 defines its own class and also imports the class of plugin1.
ModuleClasses(stem) ==
    CASE stem = "plugin1" -> <<[name |-> "A", cat |-> "text"]>>
      [] stem = "plugin2" -> <<[name |-> "B", cat |-> "file"],
                               [name |-> "A", cat |-> "text"]>>
      [] OTHER -> <<>>

ModuleStems == {"plugin1", "plugin2"}

\* obj(): a class of module stem is instantiated; id is the new object.
Ctor(stem, id) == [ev |-> "__init__", plugin |-> stem, id |-> id]

(***************************************************************************)
(* PluginManager._load_plugin_module                                       *)
(***************************************************************************)
LoadOutcomes == {"ok", "import_fail", "ctor_fail", "name_fail", "cat_fail",
                 "init_fail"}

\* The for loop over the members of the module; stopAtFirst is the break
\* that ends it after the first plugin class.
RECURSIVE InstantiateFrom(_, _, _, _, _)
InstantiateFrom(M, stem, classes, outcome, stopAtFirst) ==
    IF classes = <<>> THEN M
    ELSE IF NewId(M) = 0 THEN [M EXCEPT !.full = TRUE]
    ELSE LET cls == Head(classes)
             p == [name |-> cls.name, cat |-> cls.cat, id |-> NewId(M)]
             M0 == [M EXCEPT !.trace = Append(@, Ctor(stem, p.id))]
         IN IF outcome = "ctor_fail" THEN [M0 EXCEPT !.raised = TRUE]
            ELSE LET M1 == register_plugin(M0, p, outcome)
                 IN IF M1.raised \/ stopAtFirst THEN M1
                    ELSE InstantiateFrom(M1, stem, Tail(classes), outcome,
                                         stopAtFirst)

\* A faulty variant of _load_plugin_module: the break is missing.
_load_plugin_module_no_break(M, stem, outcome) ==
    IF outcome = "import_fail" THEN [M EXCEPT !.raised = TRUE]
    ELSE InstantiateFrom(M, stem, ModuleClasses(stem), outcome, FALSE)

_load_plugin_module(M, stem, outcome) ==
    IF outcome = "import_fail" THEN [M EXCEPT !.raised = TRUE]
    ELSE InstantiateFrom(M, stem, ModuleClasses(stem), outcome, TRUE)

(***************************************************************************)
(* PluginManager.load_plugins                                              *)
(***************************************************************************)
\* The for loop over os.listdir; stopOnError ends the scan at the first
\* module that raises (the code never does).
RECURSIVE ScanDirectory(_, _, _, _)
ScanDirectory(M, listing, outcomes, stopOnError) ==
    IF listing = <<>> THEN M
    ELSE LET f == Head(listing) IN
         IF ~IsModuleFile(f)
         THEN ScanDirectory(M, Tail(listing), outcomes, stopOnError)
         ELSE LET M1 == _load_plugin_module(M, f.stem, outcomes[f.stem])
                  M2 == IF M1.raised
                        THEN [M1 EXCEPT !.raised = FALSE,
                                        !.trace = @ \o <<Sig("plugin_error", f.stem)>>]
                        ELSE M1
              IN IF M1.raised /\ stopOnError THEN M2
                 ELSE ScanDirectory(M2, Tail(listing), outcomes, stopOnError)

\* A faulty variant of load_plugins: the try block encloses the whole loop.
load_plugins_try_around_loop(M, d, listing, outcomes) ==
    IF ~DirExists(d) THEN M
    ELSE ScanDirectory(M, listing, outcomes, TRUE)

load_plugins(M, d, listing, outcomes) ==
    IF ~DirExists(d) THEN M
    ELSE ScanDirectory(M, listing, outcomes, FALSE)

(***************************************************************************)
(* Version strings.  A string is a sequence of characters, so that         *)
(* str.split('.') and int() are computed and not assumed.                  *)
(***************************************************************************)
DigitChars == {"0", "1", "2", "3", "4", "5", "6", "7", "8", "9"}

DigitValue(c) ==
    CASE c = "0" -> 0 [] c = "1" -> 1 [] c = "2" -> 2 [] c = "3" -> 3
      [] c = "4" -> 4 [] c = "5" -> 5 [] c = "6" -> 6 [] c = "7" -> 7
      [] c = "8" -> 8 [] c = "9" -> 9

\* s.split('.'): the fields between the dots, empty fields included.
RECURSIVE SplitFrom(_, _, _)
SplitFrom(s, cur, acc) ==
    IF s = <<>> THEN Append(acc, cur)
    ELSE IF Head(s) = "." THEN SplitFrom(Tail(s), <<>>, Append(acc, cur))
    ELSE SplitFrom(Tail(s), Append(cur, Head(s)), acc)

Split(s) == SplitFrom(s, <<>>, <<>>)

\* int(x) for a field x: ValueError on an empty field or a non-digit.
IntRaises(x) == x = <<>> \/ \E i \in DOMAIN x : x[i] \notin DigitChars

RECURSIVE IntOf(_)
IntOf(x) ==
    IF x = <<>> THEN 0
    ELSE 10 * IntOf(SubSeq(x, 1, Len(x) - 1)) + DigitValue(x[Len(x)])

\* [int(x) for x in v.split('.')]
PartsRaise(v) == \E i \in DOMAIN Split(v) : IntRaises(Split(v)[i])
Parts(v) == [i \in DOMAIN Split(v) |-> IntOf(Split(v)[i])]

Returned(x) == [raised |-> FALSE, value |-> x]
Raised == [raised |-> TRUE, value |-> 0]
Unset == [raised |-> FALSE, value |-> 99]

Max(a, b) == IF a >= b THEN a ELSE b

Min(a, b) == IF a <= b THEN a ELSE b

\* A faulty variant of CompareFrom: the loop stops at the shorter list.
RECURSIVE CompareFromShorter(_, _, _)
CompareFromShorter(parts1, parts2, i) ==
    IF i > Min(Len(parts1), Len(parts2)) THEN 0
    ELSE IF parts1[i] > parts2[i] THEN 1
    ELSE IF parts1[i] < parts2[i] THEN -1
    ELSE CompareFromShorter(parts1, parts2, i + 1)

\* The loop of _compare_version from index i on (1-based).
RECURSIVE CompareFrom(_, _, _)
CompareFrom(parts1, parts2, i) ==
    IF i > Max(Len(parts1), Len(parts2)) THEN 0
    ELSE LET p1 == IF i <= Len(parts1) THEN parts1[i] ELSE 0
             p2 == IF i <= Len(parts2) THEN parts2[i] ELSE 0
         IN IF p1 > p2 THEN 1
            ELSE IF p1 < p2 THEN -1
            ELSE CompareFrom(parts1, parts2, i + 1)

(***************************************************************************)
(* UpdateChecker._compare_version                                          *)
(***************************************************************************)
_compare_version(a, b) ==
    IF PartsRaise(a) \/ PartsRaise(b) THEN Raised
    ELSE Returned(CompareFrom(Parts(a), Parts(b), 1))

\* The inputs: every string over VerChars up to MaxVerLen, and the versions
\* the specification names.
VerChars == {"0", "1", "2", "."}

RECURSIVE StringsOfLen(_)
StringsOfLen(n) ==
    IF n = 0 THEN {<<>>}
    ELSE {Append(s, c) : s \in StringsOfLen(n - 1), c \in VerChars}

V_1_2_0 == <<"1", ".", "2", ".", "0">>
V_1_1_9 == <<"1", ".", "1", ".", "9">>
V_1_0_0 == <<"1", ".", "0", ".", "0">>
V_1_0 == <<"1", ".", "0">>
V_1_1 == <<"1", ".", "1">>
V_1_9 == <<"1", ".", "9">>
V_1_10 == <<"1", ".", "1", "0">>
V_0_1_0 == <<"0", ".", "1", ".", "0">>
V_0_0_0 == <<"0", ".", "0", ".", "0">>
V_1_x == <<"1", ".", "x">>

ExampleVersions == {V_1_2_0, V_1_1_9, V_1_0_0, V_1_0, V_1_1, V_1_9, V_1_10,
                    V_0_1_0, V_1_x}

VersionStrings ==
    UNION {StringsOfLen(n) : n \in 0..MaxVerLen} \cup ExampleVersions

(***************************************************************************)
(* The state machine of the plugin manager.                                *)
(***************************************************************************)
\* loadable: for load_plugins, the modules of the directory that import,
\* instantiate and initialize without raising.
Op(op, arg, loadable, M) ==
    [op |-> op, arg |-> arg, prevActive |-> active_plugin,
     loadable |-> loadable, ret |-> M.ret, raised |-> M.raised]

Commit(op, arg, loadable, M) ==
    \E R \in {M} :
        /\ ~R.full
        /\ plugins' = R.plugins
        /\ active_plugin' = R.active
        /\ plugin_categories' = R.cats
        /\ trace' = R.trace
        /\ activeInsts' = {i \in 1..MaxInst : i \in R.activeInsts}
        /\ lastOp' = Op(op, arg, loadable, R)
        /\ UNCHANGED <<verVars, updVars, autoVars, appVars>>

PMStart ==
    /\ plugins = [n \in Names |-> NoPlugin]
    /\ active_plugin = None
    /\ plugin_categories = [c \in Cats |-> <<>>]
    /\ trace = <<>>
    /\ lastOp = [op |-> "init", arg |-> None, prevActive |-> None,
                 loadable |-> {}, ret |-> None, raised |-> FALSE]
    /\ activeInsts = {}

\* The instances a caller can hand to register_plugin: a new one, or one the
\* manager has seen and still holds.
KnownInstances == {plugins[n] : n \in Registered(plugins)}

LoadPlugins ==
    \E d \in Dirs :
        /\ TotalEntries(plugin_categories) + Cardinality(ModuleStems) <= MaxEntries
        /\ \/ /\ ~DirExists(d)
              /\ Commit("load_plugins", d, {}, load_plugins(Manager, d, <<>>, <<>>))
           \/ \E listing \in DirListings(d) :
              \E outcomes \in [ModuleStems -> LoadOutcomes] :
                Commit("load_plugins", d, {m \in ModuleStems : outcomes[m] = "ok"},
                       load_plugins(Manager, d, listing, outcomes))

RegisterNew ==
    \E cls \in PluginClasses, outcome \in RegisterOutcomes :
        /\ NewId(Manager) # 0
        /\ TotalEntries(plugin_categories) < MaxEntries
        /\ LET p == [name |-> cls.name, cat |-> cls.cat, id |-> NewId(Manager)]
           IN Commit("register_plugin", cls.name, {}, register_plugin(Manager, p, outcome))

RegisterAgain ==
    \E p \in KnownInstances, outcome \in RegisterOutcomes :
        /\ TotalEntries(plugin_categories) < MaxEntries
        /\ Commit("register_plugin", p.name, {}, register_plugin(Manager, p, outcome))

ActivatePlugin ==
    \E n \in Names, dRaises \in BOOLEAN, aRaises \in BOOLEAN :
        /\ n \in Names
        /\ Commit("activate_plugin", n, {}, activate_plugin(Manager, n, dRaises, aRaises))

DeactivatePlugin ==
    \E n \in Names, raises \in BOOLEAN :
        /\ n \in Names
        /\ Commit("deactivate_plugin", n, {}, deactivate_plugin(Manager, n, raises))

PMNext ==
    \/ LoadPlugins
    \/ RegisterNew
    \/ RegisterAgain
    \/ ActivatePlugin
    \/ DeactivatePlugin

(***************************************************************************)
(* version.json, local and remote.                                         *)
(***************************************************************************)
JsonNumber == <<"<number>">>     \* a version that is a JSON number, not a string
IsString(v) == v # JsonNumber

DefaultUrl == "https://your-server.com/updates/version.json"

LocalVersions == {V_1_0, V_1_0_0, V_1_1_9, V_1_x, JsonNumber}
RemoteVersions == {V_1_0, V_1_1, V_1_2_0, V_1_10, V_1_9, V_0_1_0, V_1_x,
                   <<>>, JsonNumber}

\* kind: missing (no file), corrupt (not JSON), object (a JSON object whose
\* fields may be absent).
LocalFiles ==
    {[kind |-> "missing", has_version |-> FALSE, version |-> <<>>, update_url |-> None],
     [kind |-> "corrupt", has_version |-> FALSE, version |-> <<>>, update_url |-> None]}
    \cup {[kind |-> "object", has_version |-> FALSE, version |-> <<>>, update_url |-> u]
            : u \in {None, DefaultUrl}}
    \cup {[kind |-> "object", has_version |-> TRUE, version |-> v, update_url |-> u]
            : v \in LocalVersions, u \in {None, DefaultUrl}}

Responses ==
    {[kind |-> k, version |-> <<>>]
        : k \in {"unreachable", "not_json", "not_object", "no_version"}}
    \cup {[kind |-> "version", version |-> v] : v \in RemoteVersions}

(***************************************************************************)
(* UpdateChecker._get_current_version and _get_version_url                 *)
(***************************************************************************)
_get_current_version(f) ==
    IF f.kind = "object"
    THEN IF f.has_version THEN f.version ELSE V_0_0_0
    ELSE V_0_1_0

_get_version_url(f) ==
    IF f.kind = "object"
    THEN IF f.update_url # None THEN f.update_url ELSE ""
    ELSE DefaultUrl

(***************************************************************************)
(* UpdateChecker.run: the signals it emits and whether an exception        *)
(* leaves it.                                                              *)
(***************************************************************************)
CheckError == [sig |-> "check_error", has_update |-> FALSE,
               current |-> <<>>, latest |-> <<>>]
CheckFinished(has, cur, latest) ==
    [sig |-> "check_finished", has_update |-> has, current |-> cur,
     latest |-> latest]

\* urlopen + json.loads + server_info.get raise on these.
FetchRaises(url, r) ==
    url = "" \/ r.kind \in {"unreachable", "not_json", "not_object"}

\* _compare_version on values that may not be strings (AttributeError).
CompareValues(a, b) ==
    IF ~IsString(a) \/ ~IsString(b) THEN Raised ELSE _compare_version(a, b)

\* A faulty variant of HasUpdate: an equal version counts as an update.
HasUpdateOrEqual(c) == c.value >= 0

HasUpdate(c) == c.value > 0

\* A faulty variant of run: the try block ends before the comparison, whose ValueError
\* leaves the worker.
run_compare_outside_try(f, r) ==
    IF FetchRaises(_get_version_url(f), r)
    THEN [signals |-> <<CheckError>>, escaped |-> FALSE]
    ELSE LET cur == _get_current_version(f)
             latest == IF r.kind = "version" THEN r.version ELSE cur
             c == CompareValues(latest, cur)
         IN IF c.raised
            THEN [signals |-> <<>>, escaped |-> TRUE]
            ELSE [signals |-> <<CheckFinished(HasUpdate(c), cur, latest)>>,
                  escaped |-> FALSE]

run(f, r) ==
    LET current_version == _get_current_version(f)
        version_url == _get_version_url(f)
    IN IF FetchRaises(version_url, r)
       THEN [signals |-> <<CheckError>>, escaped |-> FALSE]
       ELSE LET latest_version == IF r.kind = "version" THEN r.version
                                  ELSE current_version
                c == CompareValues(latest_version, current_version)
            IN IF c.raised
               THEN [signals |-> <<CheckError>>, escaped |-> FALSE]
               ELSE [signals |-> <<CheckFinished(HasUpdate(c), current_version,
                                                 latest_version)>>,
                     escaped |-> FALSE]

(***************************************************************************)
(* The update flow: AutoUpdater, UpdateChecker, UpdateDialog,              *)
(* UpdateDownloader.                                                       *)
(***************************************************************************)
UpdStart ==
    /\ chk = "idle"
    /\ resp = [kind |-> "none", version |-> <<>>]
    /\ chkSignals = <<>>
    /\ chkEscaped = FALSE
    /\ dlg = "none"
    /\ update_btn = TRUE
    /\ later_btn = TRUE
    /\ status = ""
    /\ dl = "idle"
    /\ downloaded_file = None
    /\ failure = "none"
    /\ scriptWritten = FALSE
    /\ scriptLaunched = FALSE
    /\ quit = FALSE
    /\ exeReplaced = FALSE
    /\ flow = <<>>
    /\ clicks = 0
    /\ downloads = 0

UpdParked ==
    /\ platform = "win32"
    /\ localFile = [kind |-> "missing", has_version |-> FALSE,
                    version |-> <<>>, update_url |-> None]
    /\ UpdStart

Platforms == {"win32", "linux", "darwin"}

UpdInit ==
    /\ platform \in Platforms
    /\ localFile \in LocalFiles
    /\ UpdStart

\* What no step of the update flow changes.
updFrame == <<pmVars, verVars, platform, localFile, autoVars, appVars>>

checkVars == <<chk, resp, chkSignals, chkEscaped>>
dialogVars == <<dlg, update_btn, later_btn, status, dl, downloaded_file,
                failure, scriptWritten, scriptLaunched, quit, exeReplaced,
                flow, clicks, downloads>>

\* AutoUpdater.check_update
StartCheck ==
    /\ UNCHANGED updFrame
    /\ chk = "idle"
    /\ chk' = "running"
    /\ UNCHANGED <<resp, chkSignals, chkEscaped, dialogVars>>

\* UpdateChecker.run on the worker thread
CheckerRun ==
    /\ UNCHANGED updFrame
    /\ chk = "running"
    /\ \E r \in Responses :
        /\ _get_version_url(localFile) = "" => r.kind = "unreachable"
        /\ resp' = r
        /\ chkSignals' = run(localFile, r).signals
        /\ chkEscaped' = run(localFile, r).escaped
    /\ chk' = "emitted"
    /\ UNCHANGED dialogVars

\* AutoUpdater._on_check_finished / _on_check_error
DeliverCheck ==
    /\ UNCHANGED updFrame
    /\ chk = "emitted"
    /\ chk' = "done"
    /\ dlg' = IF chkSignals # <<>> /\ chkSignals[1].has_update
              THEN "open" ELSE dlg
    /\ UNCHANGED <<resp, chkSignals, chkEscaped, update_btn, later_btn, status,
                   dl, downloaded_file, failure, scriptWritten, scriptLaunched,
                   quit, exeReplaced, flow, clicks, downloads>>

\* UpdateDialog._start_update, on a click on the enabled update button
_start_update ==
    /\ update_btn' = FALSE
    /\ later_btn' = FALSE
    /\ status' = "downloading"
    /\ dl' = "running"
    /\ downloads' = downloads + 1
    /\ flow' = Append(flow, "download_started")

ClickUpdate ==
    /\ UNCHANGED updFrame
    /\ ~quit
    /\ dlg = "open"
    /\ update_btn
    /\ clicks < MaxClicks
    /\ clicks' = clicks + 1
    /\ failure' = "none"
    /\ _start_update
    /\ UNCHANGED <<checkVars, dlg, downloaded_file, scriptWritten,
                   scriptLaunched, quit, exeReplaced>>

\* QDialog.reject: the later button, Esc or the window's close button
RejectDialog ==
    /\ UNCHANGED updFrame
    /\ ~quit
    /\ dlg = "open"
    /\ dlg' = "rejected"
    /\ UNCHANGED <<checkVars, update_btn, later_btn, status, dl,
                   downloaded_file, failure, scriptWritten, scriptLaunched,
                   quit, exeReplaced, flow, clicks, downloads>>

\* UpdateDownloader.run on the worker thread: exactly one of its two signals
DownloaderRun ==
    /\ UNCHANGED updFrame
    /\ dl = "running"
    /\ \E ok \in BOOLEAN :
        /\ dl' = IF ok THEN "download_finished" ELSE "download_error"
        /\ flow' = Append(flow, IF ok THEN "download_finished" ELSE "download_error")
    /\ UNCHANGED <<checkVars, dlg, update_btn, later_btn, status,
                   downloaded_file, failure, scriptWritten, scriptLaunched,
                   quit, exeReplaced, clicks, downloads>>

\* A faulty variant of _on_download_error: the handler starts the download again.
_on_download_error_retry ==
    /\ status' = "download_failed"
    /\ update_btn' = FALSE
    /\ later_btn' = FALSE
    /\ dl' = "running"
    /\ failure' = "download"
    /\ downloads' = downloads + 1
    /\ flow' = Append(flow, "download_started")
    /\ downloads < MaxClicks + 1
    /\ UNCHANGED <<dlg, downloaded_file, scriptWritten, scriptLaunched, quit,
                   exeReplaced, clicks>>

\* UpdateDialog._on_download_error
_on_download_error ==
    /\ status' = "download_failed"
    /\ update_btn' = TRUE
    /\ later_btn' = TRUE
    /\ dl' = "idle"
    /\ failure' = "download"
    /\ UNCHANGED <<dlg, downloaded_file, scriptWritten, scriptLaunched, quit,
                   exeReplaced, flow, clicks, downloads>>

OnDownloadError ==
    /\ UNCHANGED updFrame
    /\ ~quit
    /\ dl = "download_error"
    /\ _on_download_error
    /\ UNCHANGED checkVars

\* UpdateDialog._install_update with _create_update_script and
\* _execute_update; extractOk, writeOk and popenOk say which library call
\* raises.  The result is the dialog's fields after the handler.
InstallFailed(D, step, events) ==
    [D EXCEPT !.status = "install_failed", !.update_btn = TRUE,
              !.later_btn = TRUE, !.failure = step,
              !.flow = @ \o events]

\* A faulty variant of _install_update: _execute_update runs in a finally block.
_install_update_always_executes(D, extractOk, writeOk, popenOk) ==
    IF ~extractOk
    THEN [InstallFailed(D, "extract", <<"extract_started", "extract_failed">>)
            EXCEPT !.quit = TRUE, !.flow = @ \o <<"quit">>]
    ELSE [D EXCEPT !.status = "ready", !.dlg = "accepted", !.quit = TRUE,
                   !.scriptWritten = D.platform = "win32" /\ writeOk,
                   !.scriptLaunched = D.platform = "win32" /\ writeOk /\ popenOk,
                   !.flow = @ \o <<"extract_started", "extracted", "quit">>]

_install_update(D, extractOk, writeOk, popenOk) ==
    IF ~extractOk
    THEN InstallFailed(D, "extract", <<"extract_started", "extract_failed">>)
    ELSE IF D.platform = "win32"
    THEN IF ~writeOk
         THEN InstallFailed(D, "script", <<"extract_started", "extracted">>)
         ELSE LET D1 == [D EXCEPT !.scriptWritten = TRUE, !.dlg = "accepted"] IN
              IF ~popenOk
              THEN InstallFailed(D1, "launch",
                                 <<"extract_started", "extracted", "script_written">>)
              ELSE [D1 EXCEPT !.status = "ready", !.scriptLaunched = TRUE,
                              !.quit = TRUE,
                              !.flow = @ \o <<"extract_started", "extracted",
                                              "script_written", "script_launched",
                                              "quit">>]
    ELSE [D EXCEPT !.status = "ready", !.dlg = "accepted", !.quit = TRUE,
                   !.flow = @ \o <<"extract_started", "extracted", "quit">>]

Dialog ==
    [platform |-> platform, dlg |-> dlg, update_btn |-> update_btn,
     later_btn |-> later_btn, status |-> status, failure |-> failure,
     scriptWritten |-> scriptWritten, scriptLaunched |-> scriptLaunched,
     quit |-> quit, flow |-> flow]

\* UpdateDialog._on_download_finished
OnDownloadFinished ==
    /\ UNCHANGED updFrame
    /\ ~quit
    /\ dl = "download_finished"
    /\ dl' = "idle"
    /\ downloaded_file' = "worktools_update.zip"
    /\ \E extractOk \in BOOLEAN, writeOk \in BOOLEAN, popenOk \in BOOLEAN :
        LET D == _install_update(Dialog, extractOk, writeOk, popenOk) IN
        /\ dlg' = D.dlg
        /\ update_btn' = D.update_btn
        /\ later_btn' = D.later_btn
        /\ status' = D.status
        /\ failure' = D.failure
        /\ scriptWritten' = D.scriptWritten
        /\ scriptLaunched' = D.scriptLaunched
        /\ quit' = D.quit
        /\ flow' = D.flow
    /\ UNCHANGED <<checkVars, exeReplaced, clicks, downloads>>

\* worktools_updater.bat, once started: xcopy over the installed files
ScriptRuns ==
    /\ UNCHANGED updFrame
    /\ scriptLaunched
    /\ ~exeReplaced
    /\ exeReplaced' = TRUE
    /\ UNCHANGED <<checkVars, dlg, update_btn, later_btn, status, dl,
                   downloaded_file, failure, scriptWritten, scriptLaunched,
                   quit, flow, clicks, downloads>>

UpdNext ==
    \/ StartCheck
    \/ CheckerRun
    \/ DeliverCheck
    \/ ClickUpdate
    \/ RejectDialog
    \/ DownloaderRun
    \/ OnDownloadError
    \/ OnDownloadFinished
    \/ ScriptRuns

(***************************************************************************)
(* The update checks of the running application: the single-shot startup   *)
(* timer of WorkToolsApp, the "check update" menu action of MainWindow,    *)
(* one AutoUpdater for each, and the dialogs their slots open with exec_.  *)
(***************************************************************************)
Owners == {"startup", "menu"}

AutoStart ==
    /\ timer = "armed"
    /\ checkers = <<>>
    /\ silent = [o \in Owners |-> None]
    /\ dialogs = <<>>
    /\ notices = {}
    /\ exited = FALSE

NewChecker(owner) ==
    [owner |-> owner, st |-> "running", sig |-> "none", has_update |-> FALSE]

NewDialog(kind, i) ==
    [kind |-> kind, of |-> i, shown |-> TRUE, update_btn |-> kind = "update",
     dl |-> "idle"]

\* The dialogs on screen; each was opened with exec_ and is modal, so only the
\* last one opened takes input and the main window takes none.
Shown == {k \in DOMAIN dialogs : dialogs[k].shown}
Top == CHOOSE k \in Shown : \A j \in Shown : j <= k

MenuChecks == {i \in DOMAIN checkers : checkers[i].owner = "menu"}

\* AutoUpdater.check_update(silent) of the AutoUpdater of owner
check_update(owner, sil) ==
    /\ silent' = [silent EXCEPT ![owner] = sil]
    /\ checkers' = Append(checkers, NewChecker(owner))

\* WorkToolsApp._check_update_on_startup, on the timeout of the timer
StartupTimerFires ==
    /\ ~exited
    /\ timer = "armed"
    /\ timer' = "fired"
    /\ check_update("startup", "True")
    /\ UNCHANGED <<dialogs, notices, exited, pmVars, verVars, updVars, appVars>>

\* MainWindow._check_update, on the menu action
MenuCheckUpdate ==
    /\ ~exited
    /\ Shown = {}
    /\ Cardinality(MenuChecks) < MaxMenuChecks
    /\ check_update("menu", "False")
    /\ UNCHANGED <<timer, dialogs, notices, exited, pmVars, verVars, updVars, appVars>>

\* UpdateChecker.run of checker i on its thread
CheckerEmits ==
    \E i \in DOMAIN checkers, r \in Responses :
        /\ ~exited
        /\ checkers[i].st = "running"
        /\ _get_version_url(localFile) = "" => r.kind = "unreachable"
        /\ run(localFile, r).signals # <<>>
        /\ LET e == run(localFile, r).signals[1]
           IN checkers' = [checkers EXCEPT ![i].st = "emitted",
                                           ![i].sig = e.sig,
                                           ![i].has_update = e.has_update]
        /\ UNCHANGED <<timer, silent, dialogs, notices, exited, pmVars, verVars,
                       updVars, appVars>>

\* AutoUpdater._on_check_finished: the dialog it opens, if any
_on_check_finished(i) ==
    IF checkers[i].has_update THEN <<NewDialog("update", i)>>
    ELSE IF silent[checkers[i].owner] # "True"
    THEN <<NewDialog("information", i)>>
    ELSE <<>>

\* AutoUpdater._on_check_error: the dialog it opens, if any
_on_check_error(i) ==
    IF silent[checkers[i].owner] # "True"
    THEN <<NewDialog("warning", i)>>
    ELSE <<>>

\* The queued signal of checker i reaches its slot on the main thread.
CheckDelivered ==
    \E i \in DOMAIN checkers :
        /\ ~exited
        /\ checkers[i].st = "emitted"
        /\ checkers' = [checkers EXCEPT ![i].st = "done"]
        /\ LET opened == IF checkers[i].sig = "check_finished"
                         THEN _on_check_finished(i)
                         ELSE _on_check_error(i)
           IN /\ dialogs' = dialogs \o opened
              /\ notices' = IF opened # <<>> THEN notices \cup {i} ELSE notices
        /\ UNCHANGED <<timer, silent, exited, pmVars, verVars, updVars, appVars>>

\* The user closes the dialog on top: OK of a message box, or the later
\* button, Esc or the close button of an update dialog.
DismissTop ==
    /\ ~exited
    /\ Shown # {}
    /\ dialogs' = [dialogs EXCEPT ![Top].shown = FALSE]
    /\ UNCHANGED <<timer, checkers, silent, notices, exited, pmVars, verVars,
                   updVars, appVars>>

\* UpdateDialog._start_update of the update dialog on top
TopStartsUpdate ==
    /\ ~exited
    /\ Shown # {}
    /\ dialogs[Top].kind = "update"
    /\ dialogs[Top].update_btn
    /\ dialogs' = [dialogs EXCEPT ![Top].update_btn = FALSE,
                                  ![Top].dl = "running"]
    /\ UNCHANGED <<timer, checkers, silent, notices, exited, pmVars, verVars,
                   updVars, appVars>>

\* UpdateDownloader.run of the downloader of dialog k
DownloaderEmits ==
    \E k \in DOMAIN dialogs, ok \in BOOLEAN :
        /\ ~exited
        /\ dialogs[k].dl = "running"
        /\ dialogs' = [dialogs EXCEPT ![k].dl = IF ok THEN "download_finished"
                                                ELSE "download_error"]
        /\ UNCHANGED <<timer, checkers, silent, notices, exited, pmVars, verVars,
                       updVars, appVars>>

\* UpdateDialog._on_download_error of dialog k
DownloadErrorDelivered ==
    \E k \in DOMAIN dialogs :
        /\ ~exited
        /\ dialogs[k].dl = "download_error"
        /\ dialogs' = [dialogs EXCEPT ![k].update_btn = TRUE, ![k].dl = "idle"]
        /\ UNCHANGED <<timer, checkers, silent, notices, exited, pmVars, verVars,
                       updVars, appVars>>

\* Dialog k as _install_update sees it when its download has finished.
Installing(k) ==
    [platform |-> platform, dlg |-> "open", update_btn |-> dialogs[k].update_btn,
     later_btn |-> FALSE, status |-> "downloading", failure |-> "none",
     scriptWritten |-> FALSE, scriptLaunched |-> FALSE, quit |-> FALSE,
     flow |-> <<>>]

\* UpdateDialog._on_download_finished of dialog k
DownloadFinishedDelivered ==
    \E k \in DOMAIN dialogs, extractOk \in BOOLEAN, writeOk \in BOOLEAN,
       popenOk \in BOOLEAN :
        /\ ~exited
        /\ dialogs[k].dl = "download_finished"
        /\ LET D == _install_update(Installing(k), extractOk, writeOk, popenOk)
           IN /\ dialogs' = [dialogs EXCEPT
                                ![k].dl = "idle",
                                ![k].update_btn = D.update_btn,
                                ![k].shown = @ /\ D.dlg # "accepted"]
              /\ exited' = D.quit
        /\ UNCHANGED <<timer, checkers, silent, notices, pmVars, verVars, updVars, appVars>>

AutoNext ==
    \/ StartupTimerFires
    \/ MenuCheckUpdate
    \/ CheckerEmits
    \/ CheckDelivered
    \/ DismissTop
    \/ TopStartsUpdate
    \/ DownloaderEmits
    \/ DownloadErrorDelivered
    \/ DownloadFinishedDelivered

(***************************************************************************)
(* The Workspace in detail: its dictionary _plugins, the QStackedWidget    *)
(* with its current index, and the title.  A widget is known by its        *)
(* identity; the page of the empty state is widget 0.  Stack indexes count *)
(* from 0 as in Qt: the widget at index i is stacked_widget[i + 1].        *)
(***************************************************************************)
EmptyWidget == 0
NoInfo == [widget |-> EmptyWidget, index |-> -1]
\* the title of the empty state
NoTitle == "<select a function>"

\* Workspace.__init__ with _setup_ui and _show_empty_state
empty_index == 0

WorkspaceStart ==
    /\ ws_info = [n \in Names |-> NoInfo]
    /\ stacked_widget = <<EmptyWidget>>
    /\ stack_current = empty_index
    /\ title_label = NoTitle

\* The workspace as one value, threaded through the operations.
TheWorkspace ==
    [keys |-> ws_plugins, info |-> ws_info, current |-> ws_current,
     stack |-> stacked_widget, page |-> stack_current, title |-> title_label,
     trace |-> <<>>, ret |-> None]

InStack(S, w) == \E i \in DOMAIN S.stack : S.stack[i] = w
IndexOf(S, w) == (CHOOSE i \in DOMAIN S.stack : S.stack[i] = w) - 1

\* QStackedWidget.setCurrentIndex: an index with no widget changes nothing.
setCurrentIndex(S, i) ==
    IF i \in 0..(Len(S.stack) - 1) THEN [S EXCEPT !.page = i] ELSE S

\* QStackedWidget.addWidget: the widget goes to the end of the stack.
addWidget(S, w) == [S EXCEPT !.stack = Append(@, w)]

\* QStackedWidget.removeWidget: the widgets behind w move down by one; the
\* current index follows the current widget, or goes to the neighbour when w
\* was the current widget.
removeWidget(S, w) ==
    IF ~InStack(S, w) THEN S
    ELSE LET idx == IndexOf(S, w)
             rest == [i \in 1..(Len(S.stack) - 1) |->
                        IF i <= idx THEN S.stack[i] ELSE S.stack[i + 1]]
         IN [S EXCEPT !.stack = rest,
                      !.page = IF idx = S.page
                               THEN (IF idx = Len(rest) THEN idx - 1 ELSE idx)
                               ELSE IF idx < S.page THEN S.page - 1
                               ELSE S.page]

\* Workspace.remove_plugin (lines 128-148; the del of line 168 belongs to
\* clear_plugins)
remove_plugin(S, name) ==
    IF name \notin S.keys THEN S
    ELSE LET S1 == removeWidget(S, S.info[name].widget)
         IN IF S1.current = name
            THEN [setCurrentIndex(S1, empty_index) EXCEPT !.current = None,
                                                          !.title = NoTitle]
            ELSE S1

\* Workspace.add_plugin
add_plugin(S, name, w) ==
    LET S1 == IF name \in S.keys THEN remove_plugin(S, name) ELSE S
        index == Len(S1.stack)
        S2 == addWidget(S1, w)
    IN [S2 EXCEPT !.info[name] = [widget |-> w, index |-> index],
                  !.keys = @ \cup {name}]

\* Workspace.get_plugin_widget (EmptyWidget stands for None)
get_plugin_widget(S, name) ==
    IF name \in S.keys THEN S.info[name].widget ELSE EmptyWidget

WidgetCall(hook, name, w) == [ev |-> hook, plugin |-> name, id |-> w]

\* Workspace.show_plugin
Workspace_show_plugin(S, name, dRaises, aRaises) ==
    IF name \notin S.keys THEN [S EXCEPT !.ret = "False"]
    ELSE IF S.current = name THEN [S EXCEPT !.ret = "True"]
    ELSE LET old == S.current
             hasOld == Truthy(old) /\ old \in S.keys
             S1 == IF hasOld
                   THEN [S EXCEPT !.trace = Append(@,
                            WidgetCall("on_deactivate", old, S.info[old].widget))]
                   ELSE S
         IN IF hasOld /\ dRaises
            THEN [S1 EXCEPT !.trace = Append(@, Sig("logger.error", name)),
                            !.ret = "False"]
            ELSE LET S2 == [setCurrentIndex(S1, S1.info[name].index)
                               EXCEPT !.title = name]
                     S3 == [S2 EXCEPT !.trace = Append(@,
                               WidgetCall("on_activate", name, S2.info[name].widget))]
                 IN IF aRaises
                    THEN [S3 EXCEPT !.trace = Append(@, Sig("logger.error", name)),
                                    !.ret = "False"]
                    ELSE [S3 EXCEPT !.current = name,
                                    !.trace = Append(@, Sig("plugin_changed", name)),
                                    !.ret = "True"]

WorkspaceCommit(op, arg, S) ==
    \E R \in {S} :
        /\ ws_plugins' = R.keys
        /\ ws_info' = R.info
        /\ ws_current' = R.current
        /\ stacked_widget' = R.stack
        /\ stack_current' = R.page
        /\ title_label' = R.title
        /\ trace' = R.trace
        /\ lastOp' = [op |-> op, arg |-> arg, prevActive |-> ws_current,
                      loadable |-> {}, ret |-> R.ret, raised |-> FALSE]
        /\ UNCHANGED <<plugins, active_plugin, plugin_categories, activeInsts,
                       verVars, updVars, autoVars, running, bundled, userDir,
                       nav_items, nav_current, selected_slots>>

\* The widgets a caller can hand to add_plugin for name: one that is not in
\* the workspace, or the one the workspace holds for name.
Widgets == 1..MaxWidgets
HeldFor(n) == IF n \in ws_plugins THEN {ws_info[n].widget} ELSE {}
HeldWidgets == UNION {HeldFor(n) : n \in Names}

AddPlugin ==
    \E n \in Names, w \in Widgets :
        /\ w \notin HeldWidgets \/ w \in HeldFor(n)
        /\ WorkspaceCommit("add_plugin", n, add_plugin(TheWorkspace, n, w))

RemovePlugin ==
    \E n \in Names :
        /\ n \in Names
        /\ WorkspaceCommit("remove_plugin", n, remove_plugin(TheWorkspace, n))

ShowPlugin ==
    \E n \in Names, dRaises \in BOOLEAN, aRaises \in BOOLEAN :
        /\ n \in Names
        /\ WorkspaceCommit("show_plugin", n,
                           Workspace_show_plugin(TheWorkspace, n, dRaises, aRaises))

WorkspaceNext ==
    \/ AddPlugin
    \/ RemovePlugin
    \/ ShowPlugin

(***************************************************************************)
(* The main window: PluginManager, Workspace and NavigationPanel together, *)
(* and the plugin files on disk.  The window as one value W, threaded      *)
(* through the operations; W.M is its PluginManager.                       *)
(***************************************************************************)
AppStopped ==
    /\ running = FALSE
    /\ ws_plugins = {}
    /\ ws_current = None
    /\ nav_items = {}
    /\ nav_current = ""
    /\ selected_slots = 0
    /\ WorkspaceStart

AppParked ==
    /\ AppStopped
    /\ bundled = ModuleStems
    /\ userDir = {}

\* PluginManager.__init__
FreshManager ==
    [plugins |-> [n \in Names |-> NoPlugin], active |-> None,
     cats |-> [c \in Cats |-> <<>>], trace |-> <<>>, activeInsts |-> {},
     full |-> FALSE, ret |-> None, raised |-> FALSE]

Window ==
    [M |-> Manager, ws_plugins |-> ws_plugins, ws_current |-> ws_current,
     nav_items |-> nav_items, nav_current |-> nav_current,
     selected_slots |-> selected_slots, ret |-> None]

\* MainWindow.__init__ before _load_plugins; _connect_signals has connected
\* plugin_selected once.
FreshWindow ==
    [M |-> FreshManager, ws_plugins |-> {}, ws_current |-> None,
     nav_items |-> {}, nav_current |-> "", selected_slots |-> 1, ret |-> None]

\* Which hook raises in one MainWindow.activate_plugin: d1/a1 in
\* PluginManager.activate_plugin, d2/a2 in Workspace.show_plugin, a3 in the
\* activate_plugin of _on_workspace_plugin_changed.
HookFailures ==
    [d1 : BOOLEAN, a1 : BOOLEAN, d2 : BOOLEAN, a2 : BOOLEAN, a3 : BOOLEAN]

\* NavigationPanel.set_active_plugin
set_active_plugin(W, name) ==
    IF name # W.nav_current THEN [W EXCEPT !.nav_current = name] ELSE W

\* MainWindow._on_workspace_plugin_changed, the slot of plugin_changed
\* (name is the active plugin of the manager by then, so this activate_plugin
\* deactivates nothing)
_on_workspace_plugin_changed(W, name, f) ==
    LET W1 == set_active_plugin(W, name)
    IN [W1 EXCEPT !.M = activate_plugin(W1.M, name, FALSE, f.a3)]

\* Workspace.show_plugin; the widget of a name is the plugin instance.
show_plugin(W, name, f) ==
    IF name \notin W.ws_plugins THEN [W EXCEPT !.ret = "False"]
    ELSE IF W.ws_current = name THEN [W EXCEPT !.ret = "True"]
    ELSE LET old == W.ws_current
             hasOld == Truthy(old) /\ old \in W.ws_plugins
             W1 == IF hasOld
                   THEN [W EXCEPT !.M.trace =
                            Append(@, Call("on_deactivate", W.M.plugins[old]))]
                   ELSE W
         IN IF hasOld /\ f.d2 THEN [W1 EXCEPT !.ret = "False"]
            ELSE LET W2 == [W1 EXCEPT !.M.trace =
                               Append(@, Call("on_activate", W.M.plugins[name]))]
                 IN IF f.a2 THEN [W2 EXCEPT !.ret = "False"]
                    ELSE LET W3 == [W2 EXCEPT !.ws_current = name]
                             W4 == _on_workspace_plugin_changed(W3, name, f)
                         IN [W4 EXCEPT !.ret = "True"]

\* MainWindow.activate_plugin
MainWindow_activate_plugin(W, name, f) ==
    LET W1 == [W EXCEPT !.M = activate_plugin(W.M, name, f.d1, f.a1)]
    IN IF W1.M.ret # "True" THEN [W1 EXCEPT !.ret = "False"]
       ELSE LET W2 == show_plugin(W1, name, f)
            IN IF W2.ret # "True" THEN [W2 EXCEPT !.ret = "False"]
               ELSE [set_active_plugin(W2, name) EXCEPT !.ret = "True"]

\* MainWindow._on_plugin_selected, the slot of plugin_selected
_on_plugin_selected(W, name, f) ==
    MainWindow_activate_plugin(
        [W EXCEPT !.M.trace = Append(@, Sig("_on_plugin_selected", name))],
        name, f)

\* plugin_selected.emit: the slot runs once for each connection, one after
\* the other.
RECURSIVE EmitPluginSelected(_, _, _, _)
EmitPluginSelected(W, name, f, n) ==
    IF n = 0 THEN W
    ELSE EmitPluginSelected(_on_plugin_selected(W, name, f), name, f, n - 1)

\* NavigationPanel._select_plugin
_select_plugin(W, name, f) ==
    IF name = W.nav_current THEN W
    ELSE EmitPluginSelected([W EXCEPT !.nav_current = name], name, f,
                            W.selected_slots)

\* os.listdir of <package>/plugins, in either order.
BundledListings(stems) ==
    IF stems = ModuleStems THEN DirListings("plugins")
    ELSE { <<File("__init__", ".py")>> \o
           [i \in 1..Cardinality(stems) |-> File(CHOOSE m \in stems : TRUE, ".py")] }

Categorized(M) ==
    {n \in Names : \E c \in Cats : \E i \in DOMAIN M.cats[c] : M.cats[c][i] = n}

\* next(iter(plugins.keys())): the name registered first in the scan
FirstKey(M, listing) ==
    LET hits == {i \in DOMAIN listing :
                    /\ IsModuleFile(listing[i])
                    /\ ModuleClasses(listing[i].stem) # <<>>
                    /\ ModuleClasses(listing[i].stem)[1].name
                            \in Registered(M.plugins)}
        i == CHOOSE x \in hits : \A y \in hits : x <= y
    IN ModuleClasses(listing[i].stem)[1].name

\* MainWindow._load_plugins: only <package>/plugins is scanned.
_load_plugins(W, listing, outcomes, f) ==
    LET M1 == load_plugins(W.M, "plugins", listing, outcomes)
        W1 == [W EXCEPT !.M = M1,
                        !.nav_items = Registered(M1.plugins) \cap Categorized(M1),
                        !.ws_plugins = Registered(M1.plugins)]
    IN IF Registered(M1.plugins) = {} THEN W1
       ELSE MainWindow_activate_plugin(W1, FirstKey(M1, listing), f)

\* MainWindow._reload_plugins: a new PluginManager and a new Workspace, the
\* navigation panel is kept; _connect_signals and _load_plugins run again.
_reload_plugins(W, listing, outcomes, f) ==
    _load_plugins(
        [FreshWindow EXCEPT !.nav_current = W.nav_current,
                            !.selected_slots = W.selected_slots + 1],
        listing, outcomes, f)

\* What class AutoUpdater defines (updater.py:379-421).
AutoUpdaterAttributes ==
    {"__init__", "check_update", "_on_check_finished", "_on_check_error",
     "parent", "update_dialog", "silent", "checker"}

\* MainWindow.closeEvent: _save_state, auto_updater.cleanup(), deactivate_plugin
\* of the active plugin, event.accept().  A missing attribute raises
\* AttributeError and ends the handler.
closeEvent(W, dRaises) ==
    LET W1 == [W EXCEPT !.M.trace = Append(@, Sig("_save_state", None))]
    IN IF "cleanup" \notin AutoUpdaterAttributes
       THEN [W1 EXCEPT !.M.raised = TRUE]
       ELSE LET W2 == [W1 EXCEPT !.M = deactivate_plugin(W1.M, W1.M.active, dRaises)]
            IN [W2 EXCEPT !.M.trace = Append(@, Sig("event.accept", None)),
                          !.ret = None]

\* The main window is on screen: closeEvent has not run.
WindowOpen == running /\ lastOp.op # "closeEvent"

WindowCommit(op, arg, loadable, W) ==
    \E R \in {W} :
        /\ ~R.M.full
        /\ plugins' = R.M.plugins
        /\ active_plugin' = R.M.active
        /\ plugin_categories' = R.M.cats
        /\ trace' = R.M.trace
        /\ activeInsts' = {i \in 1..MaxInst : i \in R.M.activeInsts}
        /\ lastOp' = [op |-> op, arg |-> arg, prevActive |-> ws_current,
                      loadable |-> loadable, ret |-> R.ret, raised |-> FALSE]
        /\ ws_plugins' = R.ws_plugins
        /\ ws_current' = R.ws_current
        /\ nav_items' = R.nav_items
        /\ nav_current' = R.nav_current
        /\ selected_slots' = R.selected_slots
        /\ UNCHANGED <<verVars, updVars, autoVars, bundled, userDir, stackVars>>

\* The application starts: MainWindow.__init__ with _load_plugins
AppStart ==
    /\ ~running
    /\ running' = TRUE
    /\ \E listing \in BundledListings(bundled),
          outcomes \in [ModuleStems -> LoadOutcomes], f \in HookFailures :
            WindowCommit("MainWindow.__init__", None,
                         {m \in bundled : outcomes[m] = "ok"},
                         _load_plugins(FreshWindow, listing, outcomes, f))

\* The user clicks a plugin in the navigation tree
SelectPlugin ==
    /\ WindowOpen
    /\ \E n \in nav_items :
            /\ n # nav_current
            /\ running' = running
            /\ \E R \in {_select_plugin(Window, n, f) : f \in HookFailures} :
                    WindowCommit("MainWindow.activate_plugin", n, {}, R)

\* MainWindow._restore_state and _restore_saved_state: activate_plugin with
\* the name saved as currentPlugin
RestoreCurrentPlugin ==
    /\ WindowOpen
    /\ \E n \in Names :
            /\ running' = running
            /\ \E R \in {MainWindow_activate_plugin(Window, n, f) :
                            f \in HookFailures} :
                    WindowCommit("MainWindow.activate_plugin", n, {}, R)

\* PluginManagerTool._install_plugin with PluginDownloadWorker.run and
\* _on_download_finished: on success the module is in get_user_plugins_dir()
\* and restart_hint is shown.
InstallPlugin ==
    /\ WindowOpen
    /\ \E stem \in ModuleStems, ok \in BOOLEAN :
        /\ userDir' = IF ok THEN userDir \cup {stem} ELSE userDir
        /\ lastOp' = [op |-> "_install_plugin", arg |-> stem,
                      prevActive |-> ws_current, loadable |-> {},
                      ret |-> IF ok THEN "True" ELSE "False", raised |-> FALSE]
    /\ trace' = <<>>
    /\ UNCHANGED <<plugins, active_plugin, plugin_categories, activeInsts,
                   verVars, updVars, autoVars, running, bundled, ws_plugins,
                   ws_current, nav_items, nav_current, selected_slots,
                   stackVars>>

\* The user picks "reload plugins" in the menu.  The new manager and the new
\* workspace have nothing to deactivate, so d1 and d2 are not drawn.
ReloadPlugins ==
    /\ WindowOpen
    /\ selected_slots < 1 + MaxReloads
    /\ running' = running
    /\ \E listing \in BundledListings(bundled),
          outcomes \in [ModuleStems -> LoadOutcomes] :
        \E R \in {_reload_plugins(Window, listing, outcomes, f) :
                    f \in {g \in HookFailures : ~g.d1 /\ ~g.d2}} :
            WindowCommit("_reload_plugins", None,
                         {m \in bundled : outcomes[m] = "ok"}, R)

\* The user closes the main window: MainWindow.closeEvent
CloseWindow ==
    /\ WindowOpen
    /\ \E R \in {closeEvent(Window, dRaises) : dRaises \in BOOLEAN} :
        /\ plugins' = R.M.plugins
        /\ active_plugin' = R.M.active
        /\ plugin_categories' = R.M.cats
        /\ trace' = R.M.trace
        /\ activeInsts' = {i \in 1..MaxInst : i \in R.M.activeInsts}
        /\ lastOp' = [op |-> "closeEvent", arg |-> None,
                      prevActive |-> active_plugin, loadable |-> {},
                      ret |-> R.ret, raised |-> R.M.raised]
    /\ UNCHANGED <<verVars, updVars, autoVars, running, bundled, userDir,
                   ws_plugins, ws_current, nav_items, nav_current,
                   selected_slots, stackVars>>

\* The application ends; its objects are gone.
AppExit ==
    /\ running
    /\ running' = FALSE
    /\ ws_plugins' = {}
    /\ ws_current' = None
    /\ nav_items' = {}
    /\ nav_current' = ""
    /\ selected_slots' = 0
    /\ plugins' = FreshManager.plugins
    /\ active_plugin' = None
    /\ plugin_categories' = FreshManager.cats
    /\ activeInsts' = {}
    /\ trace' = <<>>
    /\ lastOp' = [op |-> "exit", arg |-> None, prevActive |-> None,
                  loadable |-> {}, ret |-> None, raised |-> FALSE]
    /\ UNCHANGED <<verVars, updVars, autoVars, bundled, userDir, stackVars>>

\* The window with its "reload plugins" menu action.
ReloadNext ==
    \/ AppStart
    \/ SelectPlugin
    \/ ReloadPlugins

AppNext ==
    \/ AppStart
    \/ SelectPlugin
    \/ RestoreCurrentPlugin
    \/ InstallPlugin
    \/ CloseWindow
    \/ AppExit

(***************************************************************************)
(* The version comparison applied to every pair of bounded inputs.         *)
(***************************************************************************)
VerParked ==
    /\ v1 = <<>>
    /\ v2 = <<>>
    /\ cmp12 = Unset
    /\ cmp21 = Unset

CompareVersions ==
    /\ cmp12 = Unset
    /\ cmp12' = _compare_version(v1, v2)
    /\ cmp21' = _compare_version(v2, v1)
    /\ UNCHANGED <<v1, v2, pmVars, updVars, autoVars, appVars>>

VerNext == CompareVersions

(***************************************************************************)
(* The specifications.                                                     *)
(***************************************************************************)
PMInit == PMStart /\ VerParked /\ UpdParked /\ AutoStart /\ AppParked

SpecPM == PMInit /\ [][PMNext]_vars

VerInit ==
    /\ PMStart
    /\ UpdParked
    /\ AutoStart
    /\ AppParked
    /\ v1 \in VersionStrings
    /\ v2 \in VersionStrings
    /\ cmp12 = Unset
    /\ cmp21 = Unset

SpecVersion == VerInit /\ [][VerNext]_vars

UpdateInit == PMStart /\ VerParked /\ UpdInit /\ AutoStart /\ AppParked

SpecUpdate == UpdateInit /\ [][UpdNext]_vars

AutoInit ==
    /\ PMStart
    /\ VerParked
    /\ platform \in Platforms
    /\ localFile \in {f \in LocalFiles : f.kind = "missing"}
    /\ UpdStart
    /\ AutoStart
    /\ AppParked

SpecAuto == AutoInit /\ [][AutoNext]_vars

\* The package ships plugin1 alone or both modules; nothing is installed yet.
AppInit ==
    /\ PMStart
    /\ VerParked
    /\ UpdParked
    /\ AutoStart
    /\ AppStopped
    /\ bundled \in {{"plugin1"}, ModuleStems}
    /\ userDir = {}

SpecApp == AppInit /\ [][AppNext]_vars

SpecReload == AppInit /\ [][ReloadNext]_vars

WorkspaceInit == PMStart /\ VerParked /\ UpdParked /\ AutoStart /\ AppParked

SpecWorkspace == WorkspaceInit /\ [][WorkspaceNext]_vars

(***************************************************************************)
(* Properties of the plugin manager (checked under SpecPM).                *)
(***************************************************************************)
Positions(ev, name) ==
    {i \in DOMAIN trace : trace[i].ev = ev /\ trace[i].plugin = name}

\* The last operation was activate_plugin(B) for a registered B while another
\* plugin A was active.
IsSwitch ==
    /\ lastOp.op = "activate_plugin"
    /\ lastOp.prevActive \in Names
    /\ lastOp.arg \in Registered(plugins)
    /\ lastOp.arg # lastOp.prevActive

\* C1: when A is active and activate_plugin(B) is called for a registered
\* B # A, A.on_deactivate is invoked exactly once and plugin_deactivated(A) is
\* emitted exactly once, both before B.on_activate and plugin_activated(B).
C1_SwitchDeactivatesPreviousOnce ==
    IsSwitch =>
        LET A == lastOp.prevActive
            B == lastOp.arg
            before == Positions("on_deactivate", A)
                        \cup Positions("plugin_deactivated", A)
            after == Positions("on_activate", B)
                        \cup Positions("plugin_activated", B)
        IN /\ Cardinality(Positions("on_deactivate", A)) = 1
           /\ Cardinality(Positions("plugin_deactivated", A)) = 1
           /\ \A i \in before, j \in after : i < j

\* C2: at most one plugin is Active at a time (Active: on_activate succeeded
\* and on_deactivate has not succeeded since), also when the previous plugin's
\* on_deactivate raises during a switch.
C2_AtMostOneActive == Cardinality(activeInsts) <= 1

Occurrences(name) ==
    {<<c, i>> \in Cats \X (1..MaxEntries + 1) :
        i <= Len(plugin_categories[c]) /\ plugin_categories[c][i] = name}

\* C3: loading or registering the same name twice does not duplicate it: no
\* name is listed more than once in the category lists.
C3_NoDuplicateEntries ==
    \A n \in Names : Cardinality(Occurrences(n)) <= 1

\* C7: an exception raised by plugin code during a manager operation does not
\* propagate to the caller of the operation.
C7_NoExceptionEscapes == ~lastOp.raised

\* The instantiations of classes of module stem in the last operation.
CtorsOf(stem) ==
    {i \in DOMAIN trace : trace[i].ev = "__init__" /\ trace[i].plugin = stem}

RegistryIds == {plugins[n].id : n \in Registered(plugins)}

\* C15: for every module scanned by one load_plugins call, at most one plugin
\* class is instantiated and at most one plugin is registered for the module,
\* also when the module holds several BasePlugin subclasses.
C15_OneClassPerModule ==
    lastOp.op = "load_plugins" =>
        \A stem \in ModuleStems :
            /\ Cardinality(CtorsOf(stem)) <= 1
            /\ Cardinality({trace[i].id : i \in CtorsOf(stem)} \cap RegistryIds) <= 1

C15_Witness ==
    /\ lastOp.op = "load_plugins"
    /\ Len(ModuleClasses("plugin2")) = 2
    /\ Cardinality(CtorsOf("plugin2")) = 1
    /\ \E i \in CtorsOf("plugin2") : plugins["B"].id = trace[i].id
    /\ Positions("plugin_loaded", "B") # {}
    /\ CtorsOf("plugin1") = {}

\* The positions of the trace where initialize raised.
InitFailures ==
    {i \in DOMAIN trace :
        /\ trace[i].ev = "initialize"
        /\ i < Len(trace)
        /\ trace[i + 1] = Sig("plugin_error", trace[i].plugin)}

\* C18: after load_plugins or register_plugin every registered plugin has
\* been initialized successfully: an instance whose initialize raised is not
\* in the registry nor in the category index.
C18_RegisteredOnlyIfInitialized ==
    lastOp.op \in {"load_plugins", "register_plugin"} =>
        \A i \in InitFailures :
            /\ plugins[trace[i].plugin].id # trace[i].id
            /\ Occurrences(trace[i].plugin) = {}

\* C19: in load_plugins a module whose import, instantiation or
\* initialization fails does not keep the other modules from being loaded:
\* every loadable module of the directory is registered after the call and
\* its plugin_loaded is emitted, wherever the failing module is in the scan.
C19_FailingModuleDoesNotStopScan ==
    lastOp.op = "load_plugins" =>
        \A stem \in lastOp.loadable :
            LET name == ModuleClasses(stem)[1].name
            IN /\ Cardinality(CtorsOf(stem)) = 1
               /\ \A i \in CtorsOf(stem) : plugins[name].id = trace[i].id
               /\ Positions("plugin_loaded", name) # {}

\* The failing module comes first in the scan and the loadable one after it.
C19_Witness ==
    /\ lastOp.op = "load_plugins"
    /\ lastOp.loadable = {"plugin2"}
    /\ Len(trace) >= 2
    /\ trace[1] = Sig("plugin_error", "plugin1")
    /\ Positions("plugin_loaded", "B") # {}
    /\ "B" \in Registered(plugins)

\* The last operation was a switch to B whose on_activate raised.
FailedSwitch ==
    /\ IsSwitch
    /\ Len(trace) >= 2
    /\ trace[Len(trace) - 1].ev = "on_activate"
    /\ trace[Len(trace) - 1].plugin = lastOp.arg
    /\ trace[Len(trace)] = Sig("plugin_error", lastOp.arg)

\* C20: if activate_plugin(B) is called while A is active and B.on_activate
\* raises, activate_plugin returns False, plugin_error(B) is emitted, B is not
\* the active plugin, A is not activated again, and the manager is left with
\* no active plugin.
C20_FailedSwitchLeavesNoneActive ==
    FailedSwitch =>
        /\ lastOp.ret = "False"
        /\ Positions("plugin_error", lastOp.arg) # {}
        /\ active_plugin # lastOp.arg
        /\ Positions("on_activate", lastOp.prevActive) = {}
        /\ active_plugin = None

\* The calls that the guards of activate_plugin and deactivate_plugin turn
\* away, seen from the state before the call.
RejectedCall ==
    \/ /\ lastOp'.op = "activate_plugin"
       /\ lastOp'.arg \notin Registered(plugins)
    \/ /\ lastOp'.op = "deactivate_plugin"
       /\ \/ lastOp'.arg \notin Registered(plugins)
          \/ active_plugin # lastOp'.arg

\* C21: activate_plugin of an unregistered name, deactivate_plugin of an
\* unregistered name and deactivate_plugin of a registered name that is not the
\* active plugin return False and leave the manager as it was: same active
\* plugin, registry and category index, no hook called, no signal emitted.
C21_RejectedCallChangesNothing ==
    [][RejectedCall =>
         /\ lastOp'.ret = "False"
         /\ ~lastOp'.raised
         /\ active_plugin' = active_plugin
         /\ plugins' = plugins
         /\ plugin_categories' = plugin_categories
         /\ activeInsts' = activeInsts
         /\ trace' = <<>>]_vars

\* deactivate_plugin("A") has been turned away while A is registered and B is
\* the active plugin.
C21_Witness ==
    /\ lastOp.op = "deactivate_plugin"
    /\ lastOp.arg \in Registered(plugins)
    /\ Truthy(lastOp.prevActive)
    /\ lastOp.prevActive # lastOp.arg
    /\ active_plugin = lastOp.prevActive
    /\ lastOp.ret = "False"
    /\ trace = <<>>

\* C22: on_deactivate is called on a plugin instance only while that instance
\* is Active, that is after an on_activate of the same instance and with no
\* successful deactivation of it since; re-registration of the active name
\* included.  activeInsts holds the Active instances before the call.
C22_DeactivateOnlyActivatedInstance ==
    [][\A i \in DOMAIN trace' :
          trace'[i].ev = "on_deactivate" => trace'[i].id \in activeInsts]_vars

(***************************************************************************)
(* The version order the specification describes: field-wise numeric       *)
(* comparison from the left, missing trailing fields counting as 0.        *)
(***************************************************************************)
WellFormed(v) ==
    /\ v # <<>>
    /\ \A i \in DOMAIN v : v[i] \in DigitChars \cup {"."}
    /\ v[1] # "."
    /\ v[Len(v)] # "."
    /\ \A i \in 1..(Len(v) - 1) : ~(v[i] = "." /\ v[i + 1] = ".")

Cuts(v) == {0, Len(v) + 1} \cup {i \in DOMAIN v : v[i] = "."}
NthCut(v, k) ==
    CHOOSE x \in Cuts(v) : Cardinality({y \in Cuts(v) : y < x}) = k - 1
NumFields(v) == Cardinality(Cuts(v)) - 1
FieldOf(v, k) == SubSeq(v, NthCut(v, k) + 1, NthCut(v, k + 1) - 1)

RECURSIVE Pow10(_)
Pow10(n) == IF n = 0 THEN 1 ELSE 10 * Pow10(n - 1)

RECURSIVE Decimal(_, _)
Decimal(f, i) ==
    IF i > Len(f) THEN 0
    ELSE DigitValue(f[i]) * Pow10(Len(f) - i) + Decimal(f, i + 1)

FieldValue(v, k) == IF k <= NumFields(v) THEN Decimal(FieldOf(v, k), 1) ELSE 0

VersionOrder(a, b) ==
    LET n == Max(NumFields(a), NumFields(b))
        D == {k \in 1..n : FieldValue(a, k) # FieldValue(b, k)}
    IN IF D = {} THEN 0
       ELSE LET k == CHOOSE x \in D : \A y \in D : x <= y
            IN IF FieldValue(a, k) > FieldValue(b, k) THEN 1 ELSE -1

\* C4: for all well-formed version strings, _compare_version returns 1, 0 or
\* -1 according to the field-wise numeric order with missing trailing fields
\* as 0; compare("1.2.0","1.1.9") > 0, compare("1.0","1.0.0") = 0,
\* compare("1.0","1.1") < 0, and compare(a,b) = -compare(b,a).
C4_CompareVersionIsVersionOrder ==
    (cmp12 # Unset /\ WellFormed(v1) /\ WellFormed(v2)) =>
        /\ ~cmp12.raised
        /\ ~cmp21.raised
        /\ cmp12.value = VersionOrder(v1, v2)
        /\ cmp12.value = -cmp21.value
        /\ (v1 = V_1_2_0 /\ v2 = V_1_1_9) => cmp12.value > 0
        /\ (v1 = V_1_0 /\ v2 = V_1_0_0) => cmp12.value = 0
        /\ (v1 = V_1_0 /\ v2 = V_1_1) => cmp12.value < 0

C4_Witness ==
    /\ cmp12 # Unset
    /\ v1 = V_1_10
    /\ v2 = V_1_9
    /\ cmp12 = Returned(1)
    /\ cmp21 = Returned(-1)

(***************************************************************************)
(* Properties of the update check and the update flow (SpecUpdate).        *)
(***************************************************************************)
CheckRan == chk \in {"emitted", "done"}

\* The answer of the version URL carries a version that is strictly newer
\* than the local one in the version order.
RemoteIsNewer ==
    /\ resp.kind = "version"
    /\ WellFormed(resp.version)
    /\ WellFormed(_get_current_version(localFile))
    /\ VersionOrder(resp.version, _get_current_version(localFile)) = 1

\* C5: a check reports has_update = TRUE exactly when the remote version is
\* strictly newer than the local one; an equal or older remote version, or a
\* descriptor without a version, reports has_update = FALSE.
C5_UpdateOfferedIffNewer ==
    /\ (CheckRan /\ RemoteIsNewer) =>
            Len(chkSignals) = 1 /\ chkSignals[1].has_update
    /\ \A i \in DOMAIN chkSignals :
        LET r == chkSignals[i]
        IN /\ r.has_update <=> RemoteIsNewer
           /\ resp.kind = "no_version" => ~r.has_update

C5_Witness ==
    /\ CheckRan
    /\ resp.kind = "version"
    /\ resp.version = V_1_10
    /\ localFile.has_version
    /\ localFile.version = V_1_1_9
    /\ chkSignals = <<CheckFinished(TRUE, V_1_1_9, V_1_10)>>

\* The version URL is unreachable, answers something that is not JSON, or
\* answers a version that does not parse as dot-separated integers.
BadResponse ==
    \/ resp.kind \in {"unreachable", "not_json"}
    \/ resp.kind = "version" /\ ~WellFormed(resp.version)

\* C6: on a bad answer of the version URL, run emits check_error exactly once
\* and never check_finished, and no exception leaves the worker; every run
\* emits exactly one of check_finished / check_error.
C6_CheckErrorReported ==
    CheckRan =>
        /\ Len(chkSignals) = 1
        /\ ~chkEscaped
        /\ BadResponse => chkSignals = <<CheckError>>

C6_Witness ==
    /\ chk = "emitted"
    /\ resp.kind = "version"
    /\ resp.version = V_1_x
    /\ localFile.update_url = DefaultUrl
    /\ chkSignals = <<CheckError>>

Earlier(e, i) == {j \in 1..(i - 1) : flow[j] = e}

\* C8: the flow is linear: extraction starts only right after
\* download_finished, and the application quits only after the download
\* finished and then the extraction succeeded, in that order.
C8_UpdateFlowLinear ==
    /\ quit => \E i \in DOMAIN flow : flow[i] = "quit"
    /\ \A i \in DOMAIN flow :
        /\ flow[i] = "extract_started" => i > 1 /\ flow[i - 1] = "download_finished"
        /\ flow[i] = "extracted" => i > 1 /\ flow[i - 1] = "extract_started"
        /\ flow[i] = "quit" =>
            \E k \in Earlier("download_finished", i) :
            \E j \in Earlier("extracted", i) :
                /\ k < j
                /\ \A m \in k..i :
                    flow[m] \notin {"download_started", "download_error",
                                    "extract_failed"}

C8_Witness ==
    /\ quit
    /\ clicks = 2
    /\ flow = <<"download_started", "download_error", "download_started",
                "download_finished", "extract_started", "extracted",
                "script_written", "script_launched", "quit">>

C10_QuitOnlyAfterScriptLaunched ==
    quit => scriptWritten /\ scriptLaunched

(***************************************************************************)
(* Properties of the update checks of the running application (SpecAuto).  *)
(***************************************************************************)
InFlight == {i \in DOMAIN checkers : checkers[i].st # "done"}

\* C11: at most one update check is in flight at any time, for every
\* interleaving of the startup timer and the menu action: no check starts
\* while another has not delivered check_finished or check_error.
C11_AtMostOneCheckInFlight == Cardinality(InFlight) <= 1

Downloading == {k \in DOMAIN dialogs : dialogs[k].dl = "running"}

\* C12: at most one update download runs at any time, also when two update
\* dialogs result from two checks.
C12_AtMostOneDownload == Cardinality(Downloading) <= 1

\* C13: every failed check delivered to its AutoUpdater is shown to the user,
\* for the silent startup check as for the menu check.
C13_CheckErrorIsShown ==
    \A i \in DOMAIN checkers :
        (checkers[i].st = "done" /\ checkers[i].sig = "check_error") =>
            i \in notices

(***************************************************************************)
(* Properties of the main window (SpecApp).                                *)
(***************************************************************************)
\* C14: a plugin that the plugin-management tool installed into the per-user
\* plugin directory is loaded and registered by the PluginManager at the next
\* start of the application.
C14_InstalledPluginLoadedAtNextStart ==
    (lastOp.op = "MainWindow.__init__" /\ lastOp.loadable = bundled) =>
        \A stem \in userDir :
            ModuleClasses(stem)[1].name \in Registered(plugins)

\* The last operation was MainWindow.activate_plugin(B) while another plugin
\* A was displayed, and it returned True.
IsWindowSwitch ==
    /\ lastOp.op = "MainWindow.activate_plugin"
    /\ lastOp.prevActive \in Names
    /\ lastOp.arg # lastOp.prevActive
    /\ lastOp.ret = "True"

\* C16: when the user switches from the displayed plugin A to B through
\* MainWindow.activate_plugin, A.on_deactivate is invoked exactly once and
\* B.on_activate exactly once for that switch.
C16_WindowSwitchCallsHooksOnce ==
    (IsWindowSwitch /\ \A i \in DOMAIN trace : trace[i].ev # "plugin_error") =>
        /\ Cardinality(Positions("on_deactivate", lastOp.prevActive)) = 1
        /\ Cardinality(Positions("on_activate", lastOp.arg)) = 1

NoName(x) == IF Truthy(x) THEN x ELSE None

\* C17: after every return of MainWindow.activate_plugin, successful or not,
\* the active plugin of the PluginManager, the current plugin of the
\* Workspace and the current plugin of the NavigationPanel are the same.
C17_ThreeViewsAgree ==
    (lastOp.op = "MainWindow.activate_plugin" /\ lastOp.ret # None) =>
        /\ NoName(active_plugin) = NoName(ws_current)
        /\ NoName(ws_current) = NoName(nav_current)

\* C23: closeEvent saves the application state, then deactivates the active
\* plugin (its on_deactivate is called and the manager has no active plugin
\* afterwards), then accepts the close event, and does not raise.
C23_CloseDeactivatesAndAccepts ==
    lastOp.op = "closeEvent" =>
        /\ ~lastOp.raised
        /\ Len(trace) >= 2
        /\ trace[1] = Sig("_save_state", None)
        /\ trace[Len(trace)] = Sig("event.accept", None)
        /\ active_plugin = None
        /\ Truthy(lastOp.prevActive) =>
                \E i \in 2..(Len(trace) - 1) :
                    /\ trace[i].ev = "on_deactivate"
                    /\ trace[i].plugin = lastOp.prevActive

\* C24: after any number of "reload plugins" actions, one selection in the
\* navigation panel invokes MainWindow._on_plugin_selected exactly once.
\* (trace holds the events of the last operation alone.)
C24_SelectionHandledOnce ==
    Cardinality({i \in DOMAIN trace : trace[i].ev = "_on_plugin_selected"}) <= 1

(***************************************************************************)
(* Properties of the Workspace (checked under SpecWorkspace).              *)
(***************************************************************************)
\* C25: after remove_plugin(name) of a plugin that was added, the plugin is
\* no longer part of the workspace: show_plugin(name) returns False,
\* get_plugin_widget(name) returns None, and if it was the current plugin the
\* workspace shows the empty state and has no current plugin.
C25_RemovedPluginIsGone ==
    [][\A n \in ws_plugins :
         (lastOp'.op = "remove_plugin" /\ lastOp'.arg = n) =>
            /\ Workspace_show_plugin(TheWorkspace, n, FALSE, FALSE)'.ret = "False"
            /\ get_plugin_widget(TheWorkspace, n)' = EmptyWidget
            /\ ws_current = n =>
                   /\ ws_current' = None
                   /\ stacked_widget'[stack_current' + 1] = EmptyWidget
                   /\ title_label' = NoTitle]_vars

\* The plugins whose widget is in the stacked widget.
Stacked ==
    {n \in ws_plugins : \E i \in DOMAIN stacked_widget :
                            stacked_widget[i] = ws_info[n].widget}

\* C26: after any sequence of add_plugin and remove_plugin, the stack index
\* stored for a plugin of the workspace designates that plugin's own widget
\* in the stacked widget.
C26_StoredIndexDesignatesOwnWidget ==
    \A n \in Stacked :
        /\ ws_info[n].index + 1 \in DOMAIN stacked_widget
        /\ stacked_widget[ws_info[n].index + 1] = ws_info[n].widget

\* show_plugin has ended in its except branch.
HookRaised(t) == \E i \in DOMAIN t : t[i].ev = "logger.error"

\* C27: a show_plugin that fails because a plugin hook raises returns False,
\* emits no plugin_changed and leaves the workspace as it was: current
\* plugin, displayed stack page and title.
C27_FailedShowChangesNothing ==
    [][(lastOp'.op = "show_plugin" /\ HookRaised(trace')) =>
         /\ lastOp'.ret = "False"
         /\ \A i \in DOMAIN trace' : trace'[i].ev # "plugin_changed"
         /\ ws_current' = ws_current
         /\ stack_current' = stack_current
         /\ stacked_widget' = stacked_widget
         /\ title_label' = title_label]_vars
====
